---- MODULE Spec2Model ----
(***************************************************************************)
(* Model of four front-end components of Sentry.                           *)
(*                                                                         *)
(* components/quickTrace/index.tsx: the QuickTrace function component,     *)
(* which turns a parsed trace into a sequence of nodes and connectors;     *)
(* EventNodeSelector, which collapses one bucket of events into a          *)
(* label-only node, a single link or a dropdown; and MissingServiceNode,   *)
(* the dismissible placeholder (specifications Spec and SpecMissing).      *)
(*                                                                         *)
(* components/globalAppStoreConnectUpdateAlert/updateAlert.tsx: the        *)
(* UpdateAlert function component (specification SpecAlert).               *)
(*                                                                         *)
(* components/events/interfaces/breadcrumbComponents/summaryLine.jsx: the  *)
(* SummaryLine class component (specification SpecSummary).                *)
(*                                                                         *)
(* Each specification runs one component and leaves the others' variables  *)
(* at rest.                                                                *)
(*                                                                         *)
(* Optional values (root?, parent?, currentEvent?, extrasTarget?, to?) are *)
(* sequences of length 0 (absent) or 1 (present).  The props location,     *)
(* organization, anchor, errorDest and transactionDest are passed through  *)
(* unchanged to the target resolvers and are left out.                     *)
(***************************************************************************)
EXTENDS Integers, Sequences, FiniteSets

VARIABLES
    pc,           \* "props": the component has its props; "done": it has rendered
    parseThrows,  \* whether parseQuickTrace(quickTrace, event) throws
    trace,        \* what parseQuickTrace returns when it does not throw
    event,        \* the event prop: the event the viewer is on
    output,       \* what QuickTrace returned
    \* MissingServiceNode
    localStorage, \* the browser's local storage: key -> stored value
    missingNodes, \* the MissingServiceNode instances: mounted, state.hideMissing
    analytics,    \* number of 'quick_trace.hide.missing-service' events tracked
    \* UpdateAlert
    alert,        \* the component instance: life, props, context, isDismissed
    promptCheck,  \* the promptsCheck request started on mount and its reply
    promptUpdates,\* promptsUpdate requests: issued, and still in flight
    promptServer, \* the prompt as the server holds it: "none" or "dismissed"
    \* SummaryLine
    summaryLines, \* the SummaryLine instances: life, domElement, state
    listeners,    \* the instances whose handler is a 'resize' listener of window
    layout        \* each instance's element: clientHeight, scrollHeight

qtVars == <<pc, parseThrows, trace, event, output>>

msVars == <<localStorage, missingNodes, analytics>>

uaVars == <<alert, promptCheck, promptUpdates, promptServer>>

slVars == <<summaryLines, listeners, layout>>

vars == <<qtVars, msVars, uaVars, slVars>>

(***************************************************************************)
(* Bounds of the inputs.                                                   *)
(***************************************************************************)
MaxEvents == 7          \* longest ancestors / children / descendants bucket
MaxErrors == 3          \* most errors attached to one event of such a bucket
MaxCurrentErrors == 2   \* most errors attached to the current trace event
MaxMissingNodes == 3    \* MissingServiceNode instances that share the local storage
MaxSummaryLines == 2    \* SummaryLine instances ever created
MaxHeight == 2          \* largest clientHeight / scrollHeight of an element

(***************************************************************************)
(* Program constants.                                                      *)
(***************************************************************************)
DefaultNumEvents == 5

HIDE_MISSING_SERVICE_KEY == "quick-trace:hide-missing-services"

TOOLTIP_PREFIX ==
    [root |-> "root", ancestors |-> "ancestor", parent |-> "parent",
     current |-> "", children |-> "child", descendants |-> "descendant"]

NodeKeys == DOMAIN TOOLTIP_PREFIX

EventTypes == {"transaction", "error"}

(***************************************************************************)
(* External collaborators (app/locale, app/utils, quickTrace/utils).  The  *)
(* resolvers are opaque: a target records which resolver made it and from  *)
(* what.                                                                   *)
(***************************************************************************)
toTitleCase(s) ==
    CASE s = "transaction" -> "Transaction"
      [] s = "error" -> "Error"
      [] OTHER -> s

t(fmt, arg) == [fmt |-> fmt, num |-> 0, arg |-> arg, fire |-> FALSE]

tn(singular, plural, n) ==
    [fmt |-> IF n = 1 THEN singular ELSE plural, num |-> n, arg |-> "", fire |-> FALSE]

tct(eventPrefix, eventType) ==
    [fmt |-> "View [eventPrefix] [eventType]", eventPrefix |-> eventPrefix,
     eventType |-> eventType]

getDuration(seconds_ms, fixedDigits, abbreviation) ==
    [ms |-> seconds_ms, fixedDigits |-> fixedDigits, abbreviation |-> abbreviation]

generateSingleErrorTarget(error) ==
    [resolver |-> "generateSingleErrorTarget", id |-> error.event_id,
     transaction |-> error.transaction]

generateSingleTransactionTarget(e) ==
    [resolver |-> "generateSingleTransactionTarget", id |-> e.event_id,
     transaction |-> e.transaction]

generateMultiTransactionsTarget(currentEvent, events, groupType) ==
    [resolver |-> "generateMultiTransactionsTarget", id |-> currentEvent.id,
     ids |-> [i \in 1..Len(events) |-> events[i].event_id], groupType |-> groupType]

(***************************************************************************)
(* EventNodeSelector, lines 260-270: the errors of every event of the      *)
(* bucket, in order, tagged with the owning event's transaction, without   *)
(* the error whose id is the current event's.                              *)
(***************************************************************************)
KeepError_Inverted(error, currentEvent) ==
    currentEvent = <<>> \/ currentEvent[1].id = error.event_id

KeepError(error, currentEvent) ==
    currentEvent = <<>> \/ currentEvent[1].id # error.event_id

RECURSIVE PushErrors(_, _, _, _)
PushErrors(errors, e, k, currentEvent) ==
    IF k > Len(e.errors) THEN errors
    ELSE LET error == e.errors[k]
         IN  IF KeepError(error, currentEvent)
             THEN PushErrors(Append(errors, [error EXCEPT !.transaction = e.transaction]),
                             e, k + 1, currentEvent)
             ELSE PushErrors(errors, e, k + 1, currentEvent)

RECURSIVE CollectErrors(_, _, _, _)
CollectErrors(errors, events, i, currentEvent) ==
    IF i > Len(events) THEN errors
    ELSE CollectErrors(PushErrors(errors, events[i], 1, currentEvent),
                       events, i + 1, currentEvent)

SelectorErrors(events, currentEvent) == CollectErrors(<<>>, events, 1, currentEvent)

(***************************************************************************)
(* Line 272: the current event is filtered out of the bucket's events.     *)
(***************************************************************************)
KeepEvent_NoFilter(e, currentEvent) == TRUE

KeepEvent(e, currentEvent) == e.event_id # currentEvent[1].id

SelectorEvents(events, currentEvent) ==
    IF currentEvent # <<>>
    THEN SelectSeq(events, LAMBDA e : KeepEvent(e, currentEvent))
    ELSE events

(***************************************************************************)
(* Lines 274-283: the node's tag type, and the fire icon on its text.      *)
(***************************************************************************)
Escalated_ErrorsOnly(errors, currentEvent) == Len(errors) > 0

Escalated(errors, currentEvent) ==
    Len(errors) > 0 \/ (currentEvent # <<>> /\ currentEvent[1].type # "transaction")

SelectorType_NeutralBase(nodeKey, errors, currentEvent) ==
    IF Escalated(errors, currentEvent)
    THEN (IF nodeKey = "current" THEN "error" ELSE "warning")
    ELSE "white"

SelectorType(nodeKey, errors, currentEvent) ==
    IF Escalated(errors, currentEvent)
    THEN (IF nodeKey = "current" THEN "error" ELSE "warning")
    ELSE (IF nodeKey = "current" THEN "black" ELSE "white")

SelectorText(text, errors, currentEvent) ==
    IF Escalated(errors, currentEvent) THEN [text EXCEPT !.fire = TRUE] ELSE text

(***************************************************************************)
(* Lines 285, 287, 314: which of the three nodes is returned.              *)
(***************************************************************************)
SelectorKind_NoEmptyCase(events, errors) ==
    IF Len(events) + Len(errors) = 1 THEN "link" ELSE "dropdown"

SelectorKind(events, errors) ==
    IF Len(events) + Len(errors) = 0 THEN "label"
    ELSE IF Len(events) + Len(errors) = 1 THEN "link"
    ELSE "dropdown"

(***************************************************************************)
(* Lines 292-304: hover text and target of the single link.                *)
(***************************************************************************)
SingleHoverText(events, errors) ==
    IF Len(errors) > 0
    THEN [fmt |-> "View the error for this Transaction", of |-> <<>>]
    ELSE [fmt |-> "SingleEventHoverText", of |-> <<events[1].event_id>>]

SingleTarget_Swapped(events, errors) ==
    IF Len(errors) > 0
    THEN generateSingleTransactionTarget(errors[1])
    ELSE generateSingleErrorTarget(events[1])

SingleTarget(events, errors) ==
    IF Len(errors) > 0
    THEN generateSingleErrorTarget(errors[1])
    ELSE generateSingleTransactionTarget(events[1])

(***************************************************************************)
(* Lines 319-327: hover text of the dropdown.                              *)
(***************************************************************************)
DropdownHoverText(nodeKey, events, errors) ==
    tct(TOOLTIP_PREFIX[nodeKey],
        IF Len(errors) > 0 /\ Len(events) > 0 THEN "events"
        ELSE IF Len(events) > 0 THEN "transactions"
        ELSE "errors")

(***************************************************************************)
(* Lines 334-384: the items of the dropdown.  slice(0, n) is Slice.  The   *)
(* overflow item's test of hoverText is left out: tct never returns a      *)
(* falsy value.  getDuration is given the duration in milliseconds.        *)
(***************************************************************************)
Slice(s, n) == SubSeq(s, 1, IF Len(s) < n THEN Len(s) ELSE n)

ErrorItems(errors, numEvents) ==
    LET shown == Slice(errors, numEvents)
    IN  [i \in 1..Len(shown) |->
            [item |-> "error", id |-> shown[i].event_id,
             transaction |-> shown[i].transaction,
             target |-> <<generateSingleErrorTarget(shown[i])>>,
             first |-> (i = 1), subtext |-> <<"error">>, extra |-> FALSE]]

EventItems(events, errors, numEvents) ==
    LET shown == Slice(events, numEvents)
    IN  [i \in 1..Len(shown) |->
            [item |-> "event", id |-> shown[i].event_id,
             transaction |-> shown[i].transaction,
             target |-> <<generateSingleTransactionTarget(shown[i])>>,
             first |-> (i = 1 /\ Len(errors) = 0),
             subtext |-> <<getDuration(shown[i].transaction_duration,
                                        IF shown[i].transaction_duration < 1000
                                        THEN 0 ELSE 2, TRUE)>>,
             extra |-> FALSE]]

ExtraItems_AfterSlice(events, numEvents, extrasTarget) ==
    IF Len(Slice(events, numEvents)) > numEvents /\ extrasTarget # <<>>
    THEN << [item |-> "extra", id |-> 0, transaction |-> <<>>,
             target |-> extrasTarget, first |-> FALSE, subtext |-> <<>>,
             extra |-> TRUE] >>
    ELSE <<>>

ExtraItems(events, numEvents, extrasTarget) ==
    IF Len(events) > numEvents /\ extrasTarget # <<>>
    THEN << [item |-> "extra", id |-> 0, transaction |-> <<>>,
             target |-> extrasTarget, first |-> FALSE, subtext |-> <<>>,
             extra |-> TRUE] >>
    ELSE <<>>

DropdownItems_EventsFirst(events, errors, numEvents, extrasTarget) ==
    EventItems(events, errors, numEvents) \o ErrorItems(errors, numEvents)
        \o ExtraItems(events, numEvents, extrasTarget)

DropdownItems(events, errors, numEvents, extrasTarget) ==
    ErrorItems(errors, numEvents) \o EventItems(events, errors, numEvents)
        \o ExtraItems(events, numEvents, extrasTarget)

(***************************************************************************)
(* EventNodeSelector, lines 247-388.  The node it returns is recorded with *)
(* the two locals it was built from: errors (lines 260-270) and events     *)
(* (line 272).                                                             *)
(***************************************************************************)
EventNodeSelector(eventsProp, text, currentEvent, extrasTarget, nodeKey, numEvents) ==
    LET errors == SelectorErrors(eventsProp, currentEvent)
        events == SelectorEvents(eventsProp, currentEvent)
        type   == SelectorType(nodeKey, errors, currentEvent)
        txt    == SelectorText(text, errors, currentEvent)
        kind   == SelectorKind(events, errors)
    IN  CASE kind = "label" ->
               [kind |-> "label", errors |-> errors, events |-> events,
                type |-> type, text |-> txt,
                hoverText |-> <<>>, to |-> <<>>, items |-> <<>>]
          [] kind = "link" ->
               [kind |-> "link", errors |-> errors, events |-> events,
                type |-> type, text |-> txt,
                hoverText |-> <<SingleHoverText(events, errors)>>,
                to |-> <<SingleTarget(events, errors)>>, items |-> <<>>]
          [] OTHER ->
               [kind |-> "dropdown", errors |-> errors, events |-> events,
                type |-> type, text |-> txt,
                hoverText |-> <<DropdownHoverText(nodeKey, events, errors)>>,
                to |-> <<>>,
                items |-> DropdownItems(events, errors, numEvents, extrasTarget)]

(***************************************************************************)
(* QuickTrace, lines 64-207.                                               *)
(***************************************************************************)
Connector(key) == [entry |-> "connector", key |-> key, node |-> <<>>]

Node(key, node) == [entry |-> "node", key |-> key, node |-> <<node>>]

MissingServiceEntry == [entry |-> "missing-service", key |-> "current", node |-> <<>>]

RootEntries(tr) ==
    IF tr.root # <<>>
    THEN << Node("root", EventNodeSelector(tr.root, t("Root", ""), <<>>, <<>>,
                                           "root", DefaultNumEvents)),
            Connector("root") >>
    ELSE <<>>

AncestorsEntries(tr, ev) ==
    IF Len(tr.ancestors) > 0
    THEN << Node("ancestors",
                 EventNodeSelector(tr.ancestors,
                     tn("%s Ancestor", "%s Ancestors", Len(tr.ancestors)), <<>>,
                     <<generateMultiTransactionsTarget(ev, tr.ancestors, "Ancestor")>>,
                     "ancestors", DefaultNumEvents)),
            Connector("ancestors") >>
    ELSE <<>>

ParentEntries(tr) ==
    IF tr.parent # <<>>
    THEN << Node("parent", EventNodeSelector(tr.parent, t("Parent", ""), <<>>, <<>>,
                                             "parent", DefaultNumEvents)),
            Connector("parent") >>
    ELSE <<>>

CurrentEntries_SkipEmpty(tr, ev) ==
    IF Len(SelectorEvents(<<tr.current>>, <<ev>>))
         + Len(SelectorErrors(<<tr.current>>, <<ev>>)) > 0
    THEN << Node("current",
                 EventNodeSelector(<<tr.current>>, t("This %s", toTitleCase(ev.type)),
                                   <<ev>>, <<>>, "current", DefaultNumEvents)) >>
    ELSE <<>>

CurrentEntries(tr, ev) ==
    << Node("current",
            EventNodeSelector(<<tr.current>>, t("This %s", toTitleCase(ev.type)),
                              <<ev>>, <<>>, "current", DefaultNumEvents)) >>

MissingServiceEntries(tr) ==
    IF tr.current.missing_service_child THEN <<MissingServiceEntry>> ELSE <<>>

ChildrenEntries_NodeFirst(tr, ev) ==
    IF Len(tr.children) > 0
    THEN << Node("children",
                 EventNodeSelector(tr.children,
                     tn("%s Child", "%s Children", Len(tr.children)), <<>>,
                     <<generateMultiTransactionsTarget(ev, tr.children, "Children")>>,
                     "children", DefaultNumEvents)),
            Connector("children") >>
    ELSE <<>>

ChildrenEntries(tr, ev) ==
    IF Len(tr.children) > 0
    THEN << Connector("children"),
            Node("children",
                 EventNodeSelector(tr.children,
                     tn("%s Child", "%s Children", Len(tr.children)), <<>>,
                     <<generateMultiTransactionsTarget(ev, tr.children, "Children")>>,
                     "children", DefaultNumEvents)) >>
    ELSE <<>>

DescendantsEntries(tr, ev) ==
    IF Len(tr.descendants) > 0
    THEN << Connector("descendants"),
            Node("descendants",
                 EventNodeSelector(tr.descendants,
                     tn("%s Descendant", "%s Descendants", Len(tr.descendants)), <<>>,
                     <<generateMultiTransactionsTarget(ev, tr.descendants, "Descendant")>>,
                     "descendants", DefaultNumEvents)) >>
    ELSE <<>>

QuickTrace_NoCatch(throws, tr, ev) ==
    [kind |-> "QuickTraceContainer",
     nodes |-> RootEntries(tr) \o AncestorsEntries(tr, ev) \o ParentEntries(tr)
                 \o CurrentEntries(tr, ev) \o MissingServiceEntries(tr)
                 \o ChildrenEntries(tr, ev) \o DescendantsEntries(tr, ev)]

\* The catch of lines 76-78 returns a fragment holding an em dash: "unknown".
QuickTrace(throws, tr, ev) ==
    IF throws
    THEN [kind |-> "unknown", nodes |-> <<>>]
    ELSE [kind |-> "QuickTraceContainer",
          nodes |-> RootEntries(tr) \o AncestorsEntries(tr, ev) \o ParentEntries(tr)
                      \o CurrentEntries(tr, ev) \o MissingServiceEntries(tr)
                      \o ChildrenEntries(tr, ev) \o DescendantsEntries(tr, ev)]

(***************************************************************************)
(* MissingServiceNode.render, lines 487-512: nothing when hideMissing,     *)
(* else a connector followed by the "???" node.                            *)
(***************************************************************************)
MissingServiceRender_NoConnector(hideMissing) ==
    IF hideMissing THEN <<>>
    ELSE << [entry |-> "node", key |-> "missing-service", node |-> <<>>] >>

MissingServiceRender(hideMissing) ==
    IF hideMissing THEN <<>>
    ELSE << [entry |-> "connector", key |-> "missing-service", node |-> <<>>],
            [entry |-> "node", key |-> "missing-service", node |-> <<>>] >>

(***************************************************************************)
(* The inputs.  Identifiers are numbers: root 1, parent 2, the current     *)
(* trace event 3, the i-th event of ancestors / children / descendants     *)
(* 10+i / 20+i / 30+i, the k-th error of event n is 100*n+k, and 0 is an   *)
(* identifier that occurs nowhere in the trace.                            *)
(***************************************************************************)
TraceError(owner, k) == [event_id |-> 100 * owner + k, transaction |-> <<"error", owner, k>>]

TraceEvent(id, nerr, missing) ==
    [event_id |-> id, transaction |-> <<"transaction", id>>,
     transaction_duration |-> 400 * id,
     errors |-> [k \in 1..nerr |-> TraceError(id, k)],
     missing_service_child |-> missing]

\* A bucket of n events whose i-th event has (stride * i) mod (MaxErrors + 1) errors.
Bucket(slot, n, stride) ==
    [i \in 1..n |-> TraceEvent(10 * slot + i, (stride * i) % (MaxErrors + 1), FALSE)]

Strides == {0, 1, 2}

FullBuckets(slot) == { Bucket(slot, n, s) : n \in 0..MaxEvents, s \in Strides }

SmallBuckets(slot) == { Bucket(slot, n, 0) : n \in 0..1 }

Buckets(slot, focus) == IF slot = focus THEN FullBuckets(slot) ELSE SmallBuckets(slot)

Roots == { <<>>, <<TraceEvent(1, 0, FALSE)>>, <<TraceEvent(1, 1, FALSE)>> }

Parents == { <<>>, <<TraceEvent(2, 0, FALSE)>> }

Currents == { TraceEvent(3, n, m) : n \in 0..MaxCurrentErrors, m \in BOOLEAN }

\* the current trace event, its first error, the root, the root's error, none
EventIds == {3, 301, 1, 101, 0}

Events == [id : EventIds, type : EventTypes]

EmptyTrace ==
    [root |-> <<>>, ancestors |-> <<>>, parent |-> <<>>,
     current |-> TraceEvent(3, 0, FALSE), children |-> <<>>, descendants |-> <<>>]

NoOutput == [kind |-> "none", nodes |-> <<>>]

\* What parseQuickTrace may return: the bucketed structure, with no relation
\* assumed between the buckets' identifiers and the event prop's.
ParsedQuickTraces ==
    UNION { [root : Roots, ancestors : Buckets(1, focus), parent : Parents,
             current : Currents, children : Buckets(2, focus),
             descendants : Buckets(3, focus)] : focus \in 1..3 }

(***************************************************************************)
(* The other components at rest.  A stored value "null" stands for a key   *)
(* that is not in the storage (getItem returns null).                      *)
(***************************************************************************)
StorageKeys == {HIDE_MISSING_SERVICE_KEY, "some-other-key"}

StoredValues == {"null", "1", "0"}

QuickTraceAtRest ==
    /\ pc = "rest"
    /\ parseThrows = FALSE
    /\ trace = EmptyTrace
    /\ event = [id |-> 0, type |-> "transaction"]
    /\ output = NoOutput

MissingAtRest ==
    /\ localStorage = [k \in StorageKeys |-> "null"]
    /\ missingNodes = [i \in 1..MaxMissingNodes |->
                         [mounted |-> FALSE, hideMissing |-> FALSE]]
    /\ analytics = 0

AlertAtRest ==
    /\ alert = [life |-> "unborn", project |-> FALSE, isLoading |-> "undefined",
                id |-> "undefined", isDismissed |-> FALSE]
    /\ promptCheck = [state |-> "none", reply |-> "none"]
    /\ promptUpdates = [issued |-> 0, inFlight |-> 0]
    /\ promptServer = "none"

SummaryAtRest ==
    /\ summaryLines = [i \in 1..MaxSummaryLines |->
                         [life |-> "unborn", domElement |-> "null",
                          hasOverflow |-> FALSE, expanded |-> FALSE]]
    /\ listeners = {}
    /\ layout = [i \in 1..MaxSummaryLines |-> [clientHeight |-> 1, scrollHeight |-> 1]]

Init ==
    /\ MissingAtRest /\ AlertAtRest /\ SummaryAtRest
    /\ pc = "props"
    /\ output = NoOutput
    /\ event \in Events
    /\ \/ /\ parseThrows = TRUE
          /\ trace = EmptyTrace
       \/ /\ parseThrows = FALSE
          /\ trace \in ParsedQuickTraces

\* One render of the component.
Render ==
    /\ pc = "props"
    /\ output' = QuickTrace(parseThrows, trace, event)
    /\ pc' = "done"
    /\ UNCHANGED <<parseThrows, trace, event>>
    /\ UNCHANGED <<msVars, uaVars, slVars>>

Next == Render

Spec == Init /\ [][Next]_vars

(***************************************************************************)
(* Reading a rendered output.                                              *)
(***************************************************************************)
Rendered == pc = "done" /\ output.kind = "QuickTraceContainer"

\* the events prop QuickTrace passes for each node key
PropsEvents(key) ==
    CASE key = "root" -> trace.root
      [] key = "ancestors" -> trace.ancestors
      [] key = "parent" -> trace.parent
      [] key = "current" -> <<trace.current>>
      [] key = "children" -> trace.children
      [] OTHER -> trace.descendants

\* the currentEvent prop QuickTrace passes for each node key
PropsCurrentEvent(key) == IF key = "current" THEN <<event>> ELSE <<>>

NodePositions(key) ==
    { i \in 1..Len(output.nodes) :
        output.nodes[i].entry = "node" /\ output.nodes[i].key = key }

RenderedKeys == { key \in NodeKeys : NodePositions(key) # {} }

NodeOf(key) == output.nodes[CHOOSE i \in NodePositions(key) : TRUE].node[1]

Min(a, b) == IF a < b THEN a ELSE b

Listed(node) == SelectSeq(node.items, LAMBDA it : ~it.extra)

Extras(node) == SelectSeq(node.items, LAMBDA it : it.extra)

\* identifiers of the events and errors a node leads to
ShownIds(node) ==
    CASE node.kind = "link" -> { node.to[1].id }
      [] node.kind = "dropdown" ->
           { node.items[i].id : i \in { j \in 1..Len(node.items) : ~node.items[j].extra } }
      [] OTHER -> {}

\* position of each entry in the fixed order of the sequence
EntryRank(e) ==
    CASE e.entry = "node" /\ e.key = "root" -> 1
      [] e.entry = "connector" /\ e.key = "root" -> 2
      [] e.entry = "node" /\ e.key = "ancestors" -> 3
      [] e.entry = "connector" /\ e.key = "ancestors" -> 4
      [] e.entry = "node" /\ e.key = "parent" -> 5
      [] e.entry = "connector" /\ e.key = "parent" -> 6
      [] e.entry = "node" /\ e.key = "current" -> 7
      [] e.entry = "missing-service" -> 8
      [] e.entry = "connector" /\ e.key = "children" -> 9
      [] e.entry = "node" /\ e.key = "children" -> 10
      [] e.entry = "connector" /\ e.key = "descendants" -> 11
      [] e.entry = "node" /\ e.key = "descendants" -> 12
      [] OTHER -> 0

ExpectedRanks ==
    (IF trace.root # <<>> THEN {1, 2} ELSE {})
      \cup (IF Len(trace.ancestors) > 0 THEN {3, 4} ELSE {})
      \cup (IF trace.parent # <<>> THEN {5, 6} ELSE {})
      \cup {7}
      \cup (IF trace.current.missing_service_child THEN {8} ELSE {})
      \cup (IF Len(trace.children) > 0 THEN {9, 10} ELSE {})
      \cup (IF Len(trace.descendants) > 0 THEN {11, 12} ELSE {})

FixedOrder ==
    /\ \A i \in 1..Len(output.nodes) - 1 :
         EntryRank(output.nodes[i]) < EntryRank(output.nodes[i + 1])
    /\ { EntryRank(output.nodes[i]) : i \in 1..Len(output.nodes) } = ExpectedRanks

Shape == [i \in 1..Len(output.nodes) |-> <<output.nodes[i].entry, output.nodes[i].key>>]

RootParentChildrenOnly ==
    /\ trace.root # <<>> /\ trace.parent # <<>> /\ Len(trace.children) > 0
    /\ Len(trace.ancestors) = 0 /\ Len(trace.descendants) = 0

RootParentChildrenShape ==
    << <<"node", "root">>, <<"connector", "root">>,
       <<"node", "parent">>, <<"connector", "parent">>,
       <<"node", "current">>,
       <<"connector", "children">>, <<"node", "children">> >>

(***************************************************************************)
(* C1 as stated: after a successful parse the entries come in the fixed    *)
(* order, an absent or empty bucket contributes nothing, and with root,    *)
(* parent and children non-empty and ancestors and descendants empty the   *)
(* output is exactly root-node, connector, parent-node, connector,         *)
(* current-node, connector, children-node.  Fails when the current trace   *)
(* event is marked missing_service.child: the placeholder is then an       *)
(* eighth entry.                                                           *)
(***************************************************************************)
C1_AsStated ==
    Rendered => /\ FixedOrder
                /\ RootParentChildrenOnly => Shape = RootParentChildrenShape

(***************************************************************************)
(* C1 amended: the fixed order holds, an absent or empty bucket            *)
(* contributes neither node nor connector, and with root, parent and       *)
(* children non-empty, ancestors and descendants empty and no              *)
(* missing-service placeholder the output is exactly the seven entries;    *)
(* with the placeholder it is those seven with the placeholder right after *)
(* the current node.                                                       *)
(***************************************************************************)
C1_Order ==
    Rendered =>
      /\ FixedOrder
      /\ RootParentChildrenOnly =>
           IF trace.current.missing_service_child
           THEN Shape = SubSeq(RootParentChildrenShape, 1, 5)
                          \o << <<"missing-service", "current">> >>
                          \o SubSeq(RootParentChildrenShape, 6, 7)
           ELSE Shape = RootParentChildrenShape

C1_Witness ==
    /\ Rendered /\ RootParentChildrenOnly
    /\ ~trace.current.missing_service_child
    /\ Len(output.nodes) = 7

(***************************************************************************)
(* C2: a node whose hoisted errors and remaining events are both empty is  *)
(* a label-only node: it has no link target and no dropdown items.         *)
(***************************************************************************)
C2_EmptyIsLabel ==
    Rendered =>
      \A key \in RenderedKeys :
        LET n == NodeOf(key)
        IN  Len(n.errors) + Len(n.events) = 0 =>
              n.kind = "label" /\ n.to = <<>> /\ n.items = <<>>

C2_Witness ==
    /\ Rendered
    /\ Len(NodeOf("current").errors) = 0 /\ Len(NodeOf("current").events) = 0
    /\ NodeOf("current").kind = "label"

(***************************************************************************)
(* C3: a node with exactly one combined error+event is a single link; its  *)
(* target is the single-error resolver's for that error when the item is   *)
(* an error and the single-transaction resolver's for that event when it   *)
(* is an event.                                                            *)
(***************************************************************************)
C3_SingleLink ==
    Rendered =>
      \A key \in RenderedKeys :
        LET n == NodeOf(key)
        IN  Len(n.errors) + Len(n.events) = 1 =>
              /\ n.kind = "link" /\ n.items = <<>>
              /\ Len(n.errors) = 1 =>
                   n.to = << [resolver |-> "generateSingleErrorTarget",
                              id |-> n.errors[1].event_id,
                              transaction |-> n.errors[1].transaction] >>
              /\ Len(n.events) = 1 =>
                   n.to = << [resolver |-> "generateSingleTransactionTarget",
                              id |-> n.events[1].event_id,
                              transaction |-> n.events[1].transaction] >>

C3_Witness ==
    /\ Rendered
    /\ Len(NodeOf("current").errors) = 1 /\ Len(NodeOf("current").events) = 0
    /\ NodeOf("current").kind = "link"
    /\ NodeOf("current").to[1].resolver = "generateSingleErrorTarget"

(***************************************************************************)
(* C4: a node with more than one combined error+event is a dropdown that   *)
(* lists the first min(cap, |errors|) errors, then the first               *)
(* min(cap, |events|) events, each category in input order and before any  *)
(* overflow item; with 3 errors and 2 events it lists the five and no      *)
(* overflow item.                                                          *)
(***************************************************************************)
C4_ErrorsThenEvents ==
    Rendered =>
      \A key \in RenderedKeys :
        LET n  == NodeOf(key)
            ne == Min(DefaultNumEvents, Len(n.errors))
            nv == Min(DefaultNumEvents, Len(n.events))
            ls == Listed(n)
        IN  Len(n.errors) + Len(n.events) > 1 =>
              /\ n.kind = "dropdown"
              /\ n.events = SelectSeq(PropsEvents(key),
                              LAMBDA e : key # "current" \/ e.event_id # event.id)
              /\ Len(ls) = ne + nv
              /\ SubSeq(n.items, 1, ne + nv) = ls
              /\ \A i \in 1..ne :
                   /\ ls[i].item = "error"
                   /\ ls[i].id = n.errors[i].event_id
                   /\ ls[i].target[1].resolver = "generateSingleErrorTarget"
                   /\ ls[i].target[1].id = n.errors[i].event_id
              /\ \A j \in 1..nv :
                   /\ ls[ne + j].item = "event"
                   /\ ls[ne + j].id = n.events[j].event_id
                   /\ ls[ne + j].target[1].resolver = "generateSingleTransactionTarget"
                   /\ ls[ne + j].target[1].id = n.events[j].event_id
              /\ (Len(n.errors) = 3 /\ Len(n.events) = 2) => Len(n.items) = 5

C4_Witness ==
    /\ Rendered
    /\ \E key \in RenderedKeys :
         /\ Len(NodeOf(key).errors) = 3 /\ Len(NodeOf(key).events) = 2
         /\ NodeOf(key).kind = "dropdown"
         /\ Len(NodeOf(key).items) = 5
         /\ NodeOf(key).items[4].item = "event"

(***************************************************************************)
(* C5: a node with no errors and more events than the cap is a dropdown of *)
(* exactly cap event items followed by exactly one overflow item, whose    *)
(* target is the bucket's multi-transactions target.                       *)
(***************************************************************************)
C5_EventsOverflow ==
    Rendered =>
      \A key \in RenderedKeys :
        LET n == NodeOf(key)
        IN  (Len(n.errors) = 0 /\ Len(n.events) > DefaultNumEvents) =>
              /\ n.kind = "dropdown"
              /\ Len(n.items) = DefaultNumEvents + 1
              /\ \A i \in 1..DefaultNumEvents :
                   n.items[i].item = "event" /\ n.items[i].id = n.events[i].event_id
              /\ n.items[DefaultNumEvents + 1].extra
              /\ n.items[DefaultNumEvents + 1].target[1].resolver
                   = "generateMultiTransactionsTarget"
              /\ n.items[DefaultNumEvents + 1].target[1].ids
                   = [i \in 1..Len(PropsEvents(key)) |-> PropsEvents(key)[i].event_id]

C5_Witness ==
    /\ Rendered
    /\ \E key \in RenderedKeys :
         /\ Len(NodeOf(key).errors) = 0 /\ Len(NodeOf(key).events) = 7
         /\ Len(NodeOf(key).items) = 6
         /\ NodeOf(key).items[6].extra

(***************************************************************************)
(* C6 as stated: in every dropdown each category lists at most cap items,  *)
(* and whenever an error or an event is left out because its category      *)
(* exceeds the cap there is exactly one overflow item.  Fails for a bucket *)
(* with more than cap errors and at most cap events: the errors beyond the *)
(* cap are dropped and no overflow item is shown.                          *)
(***************************************************************************)
C6_OverflowForEveryOmission ==
    Rendered =>
      \A key \in RenderedKeys :
        LET n == NodeOf(key)
        IN  n.kind = "dropdown" =>
              /\ Len(SelectSeq(n.items, LAMBDA it : it.item = "error")) <= DefaultNumEvents
              /\ Len(SelectSeq(n.items, LAMBDA it : it.item = "event")) <= DefaultNumEvents
              /\ (Len(n.errors) > DefaultNumEvents \/ Len(n.events) > DefaultNumEvents)
                   => Len(Extras(n)) = 1

(***************************************************************************)
(* C7 as stated: in every rendered bucket node no shown event or error has *)
(* the current event's identifier.  Fails for a bucket other than current  *)
(* that holds an event or error with that identifier: those nodes get no   *)
(* currentEvent prop and are rendered unfiltered.                          *)
(***************************************************************************)
C7_AsStated ==
    Rendered => \A key \in RenderedKeys : event.id \notin ShownIds(NodeOf(key))

(***************************************************************************)
(* C7 amended: in the current node no shown event or error has the current *)
(* event's identifier; every other bucket node keeps all the events of its *)
(* bucket, so its self-exclusion rests on the parsed trace alone.          *)
(***************************************************************************)
C7_CurrentSlotSelfExclusion ==
    Rendered =>
      /\ event.id \notin ShownIds(NodeOf("current"))
      /\ \A e \in { NodeOf("current").events[i] :
                      i \in 1..Len(NodeOf("current").events) } :
           e.event_id # event.id
      /\ \A key \in RenderedKeys \ {"current"} :
           NodeOf(key).events = PropsEvents(key)

C7_Witness ==
    /\ Rendered
    /\ event.id = trace.current.event_id
    /\ Len(trace.current.errors) = 2
    /\ NodeOf("current").events = <<>>
    /\ NodeOf("current").kind = "dropdown"

\* the (event, error) index pairs of the errors that are kept, and their order
KeptPairs(events, cur) ==
    UNION { { <<i, k>> : k \in { j \in 1..Len(events[i].errors) :
                                   cur = <<>> \/ events[i].errors[j].event_id # cur[1].id } }
            : i \in 1..Len(events) }

PairBefore(p, q) == p[1] < q[1] \/ (p[1] = q[1] /\ p[2] <= q[2])

PairRank(p, S) == Cardinality({ q \in S : PairBefore(q, p) })

(***************************************************************************)
(* C8: the errors sequence holds, in input order (events in order, each    *)
(* event's errors in order), exactly the errors of the bucket's events     *)
(* whose identifier differs from the current event's when one is given and *)
(* all of them when none is, each tagged with its owner's transaction;     *)
(* errors of an event that self-exclusion removes are collected too.       *)
(***************************************************************************)
C8_ErrorsInInputOrder ==
    Rendered =>
      \A key \in RenderedKeys :
        LET evs  == PropsEvents(key)
            S    == KeptPairs(evs, PropsCurrentEvent(key))
            errs == NodeOf(key).errors
        IN  /\ Len(errs) = Cardinality(S)
            /\ \A p \in S :
                 errs[PairRank(p, S)] =
                   [event_id |-> evs[p[1]].errors[p[2]].event_id,
                    transaction |-> evs[p[1]].transaction]

C8_Witness ==
    /\ Rendered
    /\ Len(trace.current.errors) = 2
    /\ event.id = trace.current.errors[1].event_id
    /\ Len(NodeOf("current").errors) = 1
    /\ NodeOf("current").errors[1].event_id = trace.current.errors[2].event_id

(***************************************************************************)
(* C9: a node has the escalated style (error in the current slot, warning  *)
(* elsewhere) exactly when its hoisted errors are non-empty or it is the   *)
(* current slot and the current event's type is not "transaction";         *)
(* otherwise it has the base style (black in the current slot, white       *)
(* elsewhere).                                                             *)
(***************************************************************************)
C9_Emphasis ==
    Rendered =>
      \A key \in RenderedKeys :
        LET n   == NodeOf(key)
            esc == Len(n.errors) > 0 \/ (key = "current" /\ event.type # "transaction")
        IN  /\ esc => n.type = (IF key = "current" THEN "error" ELSE "warning")
            /\ ~esc => n.type = (IF key = "current" THEN "black" ELSE "white")
            /\ n.text.fire = esc

C9_Witness ==
    /\ Rendered
    /\ event.type # "transaction"
    /\ Len(NodeOf("current").errors) = 0
    /\ NodeOf("current").type = "error"

(***************************************************************************)
(* C10 as stated: every label-only node has the current style (black) in   *)
(* the current slot and the neutral style (white) elsewhere, for every     *)
(* current event type.  Fails in the current slot when the current event's *)
(* type is not "transaction": the label-only node has the error style.     *)
(***************************************************************************)
C10_AsStated ==
    Rendered =>
      \A key \in RenderedKeys :
        NodeOf(key).kind = "label" =>
          NodeOf(key).type = (IF key = "current" THEN "black" ELSE "white")

(***************************************************************************)
(* C10 amended: a label-only node in the current slot has the current      *)
(* style (black) when the current event's type is "transaction" and the    *)
(* error style when it is not; a label-only node elsewhere has the neutral *)
(* style (white).                                                          *)
(***************************************************************************)
C10_LabelStyle ==
    Rendered =>
      \A key \in RenderedKeys :
        NodeOf(key).kind = "label" =>
          NodeOf(key).type =
            (IF key # "current" THEN "white"
             ELSE IF event.type = "transaction" THEN "black" ELSE "error")

C10_Witness ==
    /\ Rendered
    /\ NodeOf("current").kind = "label"
    /\ event.type = "transaction"
    /\ NodeOf("current").type = "black"

(***************************************************************************)
(* C11: after a successful parse the output holds exactly one current-slot *)
(* node, whatever buckets are present, also when the current slot's own    *)
(* combined error+event count is zero.                                     *)
(***************************************************************************)
C11_OneCurrentNode ==
    Rendered =>
      /\ Cardinality(NodePositions("current")) = 1
      /\ Cardinality({ i \in 1..Len(output.nodes) : output.nodes[i].key = "current"
                          /\ output.nodes[i].entry # "missing-service" }) = 1

C11_Witness ==
    /\ Rendered
    /\ Cardinality(NodePositions("current")) = 1
    /\ Len(NodeOf("current").errors) + Len(NodeOf("current").events) = 0
    /\ trace.root = <<>> /\ Len(trace.children) = 0

(***************************************************************************)
(* C12: when parseQuickTrace throws, QuickTrace returns only the "unknown" *)
(* placeholder: no bucket node, no connector, no missing-service           *)
(* placeholder, and the call returns (the render step is enabled and       *)
(* completes).                                                             *)
(***************************************************************************)
C12_ParseFailure ==
    /\ (pc = "props" /\ parseThrows) => ENABLED Render
    /\ (pc = "done" /\ parseThrows) => output = [kind |-> "unknown", nodes |-> <<>>]

C12_Witness == pc = "done" /\ parseThrows /\ output.kind = "unknown"

(***************************************************************************)
(* C20: after a successful parse, with the missing-service placeholder     *)
(* replaced by what it renders (nothing when hidden, its connector and its *)
(* node when visible), nodes and connectors strictly alternate: the        *)
(* sequence starts and ends with a node, no two connectors and no two      *)
(* nodes are adjacent, and there is one connector fewer than nodes.        *)
(***************************************************************************)
RECURSIVE Flattened(_, _)
Flattened(nodes, hideMissing) ==
    IF nodes = <<>> THEN <<>>
    ELSE (IF Head(nodes).entry = "missing-service"
          THEN MissingServiceRender(hideMissing)
          ELSE <<Head(nodes)>>) \o Flattened(Tail(nodes), hideMissing)

Alternates(s) ==
    /\ Len(s) >= 1
    /\ s[1].entry = "node" /\ s[Len(s)].entry = "node"
    /\ \A i \in 1..Len(s) - 1 : s[i].entry # s[i + 1].entry
    /\ Len(SelectSeq(s, LAMBDA e : e.entry = "connector"))
         = Len(SelectSeq(s, LAMBDA e : e.entry = "node")) - 1

C20_Alternation ==
    Rendered => \A hideMissing \in BOOLEAN : Alternates(Flattened(output.nodes, hideMissing))

C20_Witness ==
    /\ Rendered
    /\ trace.current.missing_service_child
    /\ trace.root # <<>> /\ Len(trace.children) > 0
    /\ Len(Flattened(output.nodes, FALSE)) = Len(output.nodes) + 1
    /\ Alternates(Flattened(output.nodes, FALSE))

(***************************************************************************)
(* MissingServiceNode, lines 461-513.  getItem and setItem are the         *)
(* storage's own operations (app/utils/localStorage).                      *)
(***************************************************************************)
getItem(storage, key) == storage[key]

setItem(storage, key, value) == [storage EXCEPT ![key] = value]

readMissingServiceState_Truthy(storage) ==
    getItem(storage, HIDE_MISSING_SERVICE_KEY) # "null"

\* lines 463-466
readMissingServiceState(storage) ==
    LET value == getItem(storage, HIDE_MISSING_SERVICE_KEY)
    IN  value = "1"

DismissedStorage_OtherKey(storage) == setItem(storage, "some-other-key", "1")

\* line 478
DismissedStorage(storage) == setItem(storage, HIDE_MISSING_SERVICE_KEY, "1")

\* lines 472-474: a new instance reads the flag once, when it is constructed
MissingServiceMount(i) ==
    /\ ~missingNodes[i].mounted
    /\ missingNodes' = [missingNodes EXCEPT
                          ![i] = [mounted |-> TRUE,
                                  hideMissing |-> readMissingServiceState(localStorage)]]
    /\ UNCHANGED <<localStorage, analytics>>

\* lines 476-485, reached from the Dismiss item of the visible placeholder (line 506)
dismissMissingService(i) ==
    /\ missingNodes[i].mounted
    /\ MissingServiceRender(missingNodes[i].hideMissing) # <<>>
    /\ localStorage' = DismissedStorage(localStorage)
    /\ missingNodes' = [missingNodes EXCEPT ![i].hideMissing = TRUE]
    /\ analytics' = analytics + 1

\* the instance is discarded with its state
MissingServiceUnmount(i) ==
    /\ missingNodes[i].mounted
    /\ missingNodes' = [missingNodes EXCEPT
                          ![i] = [mounted |-> FALSE, hideMissing |-> FALSE]]
    /\ UNCHANGED <<localStorage, analytics>>

InitMissing ==
    /\ QuickTraceAtRest /\ AlertAtRest /\ SummaryAtRest
    /\ localStorage \in [StorageKeys -> StoredValues]
    /\ missingNodes = [i \in 1..MaxMissingNodes |->
                         [mounted |-> FALSE, hideMissing |-> FALSE]]
    /\ analytics = 0

NextMissing ==
    /\ UNCHANGED <<qtVars, uaVars, slVars>>
    /\ \E i \in 1..MaxMissingNodes :
         \/ MissingServiceMount(i)
         \/ dismissMissingService(i)
         \/ MissingServiceUnmount(i)

SpecMissing == InitMissing /\ [][NextMissing]_vars

MountedNodes == { i \in 1..MaxMissingNodes : missingNodes[i].mounted }

(***************************************************************************)
(* C13: a newly constructed placeholder starts hidden exactly when the     *)
(* value stored under HIDE_MISSING_SERVICE_KEY is "1", and visible for     *)
(* every other stored value and for an absent one, whatever is stored      *)
(* under other keys.                                                       *)
(***************************************************************************)
C13_InitialState ==
    [][\A i \in 1..MaxMissingNodes :
         (~missingNodes[i].mounted /\ missingNodes'[i].mounted) =>
           (missingNodes'[i].hideMissing
              <=> localStorage[HIDE_MISSING_SERVICE_KEY] = "1")]_vars

C13_Witness ==
    /\ analytics = 0
    /\ localStorage[HIDE_MISSING_SERVICE_KEY] = "1"
    /\ \E i, j \in MountedNodes : i # j /\ missingNodes[i].hideMissing
                                        /\ missingNodes[j].hideMissing

(***************************************************************************)
(* C14: a dismissal takes its instance from visible to hidden and leaves   *)
(* "1" under the key in the same step, and no mounted instance ever goes   *)
(* from hidden back to visible.                                            *)
(***************************************************************************)
C14_DismissIsPermanent ==
    [][\A i \in 1..MaxMissingNodes :
         (missingNodes[i].mounted /\ missingNodes'[i].mounted) =>
           /\ missingNodes[i].hideMissing => missingNodes'[i].hideMissing
           /\ (~missingNodes[i].hideMissing /\ missingNodes'[i].hideMissing) =>
                /\ localStorage'[HIDE_MISSING_SERVICE_KEY] = "1"
                /\ analytics' = analytics + 1
           /\ analytics' # analytics =>
                \E j \in 1..MaxMissingNodes :
                  /\ missingNodes[j].mounted /\ ~missingNodes[j].hideMissing
                  /\ missingNodes'[j].mounted /\ missingNodes'[j].hideMissing]_vars

C14_Witness ==
    /\ analytics = 1
    /\ localStorage[HIDE_MISSING_SERVICE_KEY] = "1"
    /\ \E i \in MountedNodes : missingNodes[i].hideMissing

(***************************************************************************)
(* C15 as stated: once a placeholder has been dismissed, every placeholder *)
(* that shares the stored flag renders nothing, whether it was constructed *)
(* after the dismissal or was already mounted.  Fails for an instance that *)
(* was mounted before the dismissal: it read the flag when constructed and *)
(* never reads it again.                                                   *)
(***************************************************************************)
C15_HiddenEverywhere ==
    analytics > 0 =>
      \A i \in MountedNodes : MissingServiceRender(missingNodes[i].hideMissing) = <<>>

(***************************************************************************)
(* UpdateAlert, updateAlert.tsx lines 31-149.  The component lives once:   *)
(* unborn, mounted, unmounted.  promptsCheck and promptsUpdate are         *)
(* requests to the server: a check is sent, answered by the server from    *)
(* the prompt it then holds, and resolved (or rejected) in the component;  *)
(* an update is issued and later applied by the server.                    *)
(***************************************************************************)
PromptData == {"none", "dismissed"}

LoadingValues == {"undefined", "true", "false"}

ContextIds == {"undefined", "repo"}

promptIsDismissed(prompt) == prompt = "dismissed"

UpdateAlertShown_LoadingFalsy(a) ==
    ~(~a.project \/ a.isLoading = "true" \/ a.id = "undefined" \/ a.isDismissed)

\* lines 128-148: whether the render returns the notice rather than null
UpdateAlertShown(a) ==
    ~(~a.project \/ a.isLoading # "false" \/ a.id = "undefined" \/ a.isDismissed)

AlertVisible == alert.life = "mounted" /\ UpdateAlertShown(alert)

\* lines 39-48: checkPrompt up to its await
checkPrompt(a, check) ==
    IF ~a.project THEN check ELSE [check EXCEPT !.state = "sent"]

\* lines 33-37: first render (useState(false)) and the effect that runs on mount
UpdateAlertMount ==
    /\ alert.life = "unborn"
    /\ alert' = [alert EXCEPT !.life = "mounted", !.isDismissed = FALSE]
    /\ promptCheck' = checkPrompt(alert, promptCheck)
    /\ UNCHANGED <<promptUpdates, promptServer>>

\* the server answers the check with the prompt it holds
ServerAnswersCheck ==
    /\ promptCheck.state = "sent"
    /\ promptCheck' = [state |-> "replied", reply |-> promptServer]
    /\ UNCHANGED <<alert, promptUpdates, promptServer>>

\* line 50: checkPrompt after its await; a state update of an unmounted
\* component is dropped
checkPromptResolved ==
    /\ promptCheck.state = "replied"
    /\ promptCheck' = [promptCheck EXCEPT !.state = "resolved"]
    /\ alert' = IF alert.life = "mounted"
                THEN [alert EXCEPT !.isDismissed = promptIsDismissed(promptCheck.reply)]
                ELSE alert
    /\ UNCHANGED <<promptUpdates, promptServer>>

\* the awaited promise rejects: line 50 is never reached
checkPromptRejected ==
    /\ promptCheck.state \in {"sent", "replied"}
    /\ promptCheck' = [promptCheck EXCEPT !.state = "failed"]
    /\ UNCHANGED <<alert, promptUpdates, promptServer>>

\* lines 53-66, reached from the Dismiss buttons of the rendered notice
handleDismiss ==
    /\ AlertVisible
    /\ IF ~alert.project
       THEN UNCHANGED <<alert, promptUpdates>>
       ELSE /\ promptUpdates' = [issued |-> promptUpdates.issued + 1,
                                 inFlight |-> promptUpdates.inFlight + 1]
            /\ alert' = [alert EXCEPT !.isDismissed = TRUE]
    /\ UNCHANGED <<promptCheck, promptServer>>

\* the server applies an update: status 'dismissed'
ServerAppliesUpdate ==
    /\ promptUpdates.inFlight > 0
    /\ promptUpdates' = [promptUpdates EXCEPT !.inFlight = @ - 1]
    /\ promptServer' = "dismissed"
    /\ UNCHANGED <<alert, promptCheck>>

\* line 32: the context provider gives the mounted component a new value
ContextChanges ==
    /\ alert.life = "mounted"
    /\ \E l \in LoadingValues, d \in ContextIds :
         /\ <<l, d>> # <<alert.isLoading, alert.id>>
         /\ alert' = [alert EXCEPT !.isLoading = l, !.id = d]
    /\ UNCHANGED <<promptCheck, promptUpdates, promptServer>>

UpdateAlertUnmount ==
    /\ alert.life = "mounted"
    /\ alert' = [alert EXCEPT !.life = "unmounted"]
    /\ UNCHANGED <<promptCheck, promptUpdates, promptServer>>

InitAlert ==
    /\ QuickTraceAtRest /\ MissingAtRest /\ SummaryAtRest
    /\ alert \in [life : {"unborn"}, project : BOOLEAN, isLoading : LoadingValues,
                  id : ContextIds, isDismissed : {FALSE}]
    /\ promptCheck = [state |-> "none", reply |-> "none"]
    /\ promptUpdates = [issued |-> 0, inFlight |-> 0]
    /\ promptServer \in PromptData

NextAlert ==
    /\ UNCHANGED <<qtVars, msVars, slVars>>
    /\ \/ UpdateAlertMount
       \/ ServerAnswersCheck
       \/ checkPromptResolved
       \/ checkPromptRejected
       \/ handleDismiss
       \/ ServerAppliesUpdate
       \/ ContextChanges
       \/ UpdateAlertUnmount

SpecAlert == InitAlert /\ [][NextAlert]_vars

(***************************************************************************)
(* C16 as stated: once handleDismiss has run with a project, the alert is  *)
(* never visible again while the instance lives, however the dismissal     *)
(* interleaves with the prompt check started on mount.  Fails when the     *)
(* check was answered before the dismissal and resolves after it: line 50  *)
(* sets isDismissed back to false.                                         *)
(***************************************************************************)
C16_DismissedStaysHidden == promptUpdates.issued > 0 => ~AlertVisible

(***************************************************************************)
(* C17: the alert is rendered only if a project is given, the context's    *)
(* isLoading is exactly false, the context has an id and isDismissed is    *)
(* false; without a project neither promptsCheck nor promptsUpdate is ever *)
(* issued.                                                                 *)
(***************************************************************************)
C17_RenderGuard ==
    /\ AlertVisible =>
         /\ alert.project
         /\ alert.isLoading = "false"
         /\ alert.id # "undefined"
         /\ ~alert.isDismissed
    /\ ~alert.project => promptCheck.state = "none" /\ promptUpdates.issued = 0

C17_Witness ==
    /\ AlertVisible
    /\ promptCheck.state = "resolved"
    /\ promptUpdates.issued = 0

(***************************************************************************)
(* SummaryLine, summaryLine.jsx.  Each instance lives once: unborn,        *)
(* mounted, unmounted.  createClass binds respondToLayoutChanges once per  *)
(* instance, and the window keeps one registration per distinct listener   *)
(* function, so the registered resize listeners are a set of instances.    *)
(* layout[i] is what the browser reports for the element of instance i.    *)
(***************************************************************************)
Heights == 1..MaxHeight

Layouts == [clientHeight : Heights, scrollHeight : Heights]

\* lines 4-6
isOverflowing(el) == el.clientHeight < el.scrollHeight

\* lines 23-28
getInitialState == [expanded |-> FALSE, hasOverflow |-> FALSE]

\* lines 35-45
respondToLayoutChanges(line, el) ==
    IF line.domElement = "null"
    THEN line
    ELSE LET hasOverflow == isOverflowing(el)
         IN IF hasOverflow # line.hasOverflow
            THEN [line EXCEPT !.hasOverflow = hasOverflow]
            ELSE line

\* lines 30-33: the ref callback of the rendered div
makeSummariesGreatAgain(line, ref, el) ==
    respondToLayoutChanges([line EXCEPT !.domElement = ref], el)

\* line 14
componentDidMount(line) == [line EXCEPT !.domElement = "null"]

\* line 19
componentWillUnmount(line) == [line EXCEPT !.domElement = "null"]

\* lines 15 and 20: window.addEventListener('resize', listener)
addEventListener(registered, listener) == registered \cup {listener}

\* first render, then the ref callback with the element, then
\* componentDidMount
SummaryLineMount(i) ==
    /\ summaryLines[i].life = "unborn"
    /\ LET born == [life |-> "mounted", domElement |-> "null",
                    hasOverflow |-> getInitialState.hasOverflow,
                    expanded |-> getInitialState.expanded]
           attached == makeSummariesGreatAgain(born, "el", layout[i])
       IN summaryLines' = [summaryLines EXCEPT ![i] = componentDidMount(attached)]
    /\ listeners' = addEventListener(listeners, i)
    /\ UNCHANGED layout

\* componentWillUnmount, then the ref callback with null
SummaryLineUnmount(i) ==
    /\ summaryLines[i].life = "mounted"
    /\ LET left == componentWillUnmount(summaryLines[i])
           detached == makeSummariesGreatAgain(left, "null", layout[i])
       IN summaryLines' = [summaryLines EXCEPT ![i] = [detached EXCEPT !.life = "unmounted"]]
    /\ listeners' = addEventListener(listeners, i)
    /\ UNCHANGED layout

\* the window is resized: the elements get a new layout and every registered
\* listener runs; a state update of an unmounted instance is dropped
WindowResize ==
    /\ \E i \in 1..MaxSummaryLines : summaryLines[i].life = "mounted"
    /\ \E l \in [1..MaxSummaryLines -> Layouts] :
         /\ layout' = l
         /\ summaryLines' =
              [i \in 1..MaxSummaryLines |->
                 IF i \in listeners /\ summaryLines[i].life = "mounted"
                 THEN respondToLayoutChanges(summaryLines[i], l[i])
                 ELSE summaryLines[i]]
    /\ UNCHANGED listeners

\* lines 47-51, the click handler of the rendered div
onToggle(i) ==
    /\ summaryLines[i].life = "mounted"
    /\ summaryLines' = [summaryLines EXCEPT ![i].expanded = ~summaryLines[i].expanded]
    /\ UNCHANGED <<listeners, layout>>

InitSummary ==
    /\ QuickTraceAtRest /\ MissingAtRest /\ AlertAtRest
    /\ summaryLines = [i \in 1..MaxSummaryLines |->
                         [life |-> "unborn", domElement |-> "null",
                          hasOverflow |-> FALSE, expanded |-> FALSE]]
    /\ listeners = {}
    /\ layout \in [1..MaxSummaryLines -> Layouts]

NextSummary ==
    /\ UNCHANGED <<qtVars, msVars, uaVars>>
    /\ \/ \E i \in 1..MaxSummaryLines : SummaryLineMount(i)
       \/ \E i \in 1..MaxSummaryLines : SummaryLineUnmount(i)
       \/ WindowResize
       \/ \E i \in 1..MaxSummaryLines : onToggle(i)

SpecSummary == InitSummary /\ [][NextSummary]_vars

MountedLines == {i \in 1..MaxSummaryLines : summaryLines[i].life = "mounted"}

(***************************************************************************)
(* C18 as stated: after any sequence of mounts and unmounts the number of  *)
(* registered resize listeners equals the number of mounted instances.     *)
(* Fails after one mount and one unmount: componentWillUnmount (line 20)   *)
(* adds the listener again and never removes it.                           *)
(***************************************************************************)
C18_ListenersMatchMounted == Cardinality(listeners) = Cardinality(MountedLines)

(***************************************************************************)
(* C19 as stated: once a window resize has been handled, hasOverflow of    *)
(* every mounted SummaryLine equals whether its element overflows.  Fails  *)
(* on the first resize that changes the overflow: componentDidMount        *)
(* (line 14) has cleared domElement after the ref callback set it, so      *)
(* respondToLayoutChanges returns at line 37.                              *)
(***************************************************************************)
C19_ResizeTracksOverflow ==
    [][WindowResize =>
         \A i \in 1..MaxSummaryLines :
            summaryLines'[i].life = "mounted" =>
               summaryLines'[i].hasOverflow = isOverflowing(layout'[i])]_vars

====
